---- MODULE Spec2Model ----
(***************************************************************************)
(* WaveRoom: the room registry, the host-only playback state machine, the  *)
(* connection lifecycle and the periodic cleanup of src/server.js          *)
(* (lines 726-883, the variant with ROOM_TTL and the 50-listener cap).     *)
(*                                                                         *)
(* Every socket.on handler and the setInterval callback is one atomic      *)
(* action (Node runs each callback to completion).                         *)
(*                                                                         *)
(* Spec is that build. Spec000 is the build of src/unnamed/part_000,       *)
(* SpecStream the streaming build of src/server.js lines 25-151 and        *)
(* Spec003 the build of src/unnamed/part_003 (Fair003 with its             *)
(* scheduling), where their handlers differ.                               *)
(***************************************************************************)
EXTENDS Integers, Sequences, FiniteSets, TLC

\* ---------------------------------------------------------------- bounds
MaxTime    == 2      \* Date.now() runs over 0..MaxTime
MaxSteps   == 4      \* events (handler runs, clock advances) in a run
\* Program constants, scaled down so that their cases happen:
ROOM_TTL     == 1    \* 6 * 60 * 60 * 1000 ms in the source
MaxTries     == 1    \* `tries++ < 100` in the source
MaxListeners == 2    \* `room.listeners.length >= 50` in the source

\* socket ids of the connections that exist during a run
Sockets   == {1, 2, 3}
\* the codes makeCode can return (32^6 strings in the source)
Codes     == {1, 2}
\* positions a payload can carry
Positions == {0, 1}
Times     == 0..MaxTime
\* clientTime values an ntp:ping can carry
ClientTimes == {0, 1}
\* whether a room:create / room:join message comes with an acknowledgement
\* callback (`typeof cb !== 'function'`)
Callbacks == BOOLEAN

\* null / undefined / an omitted payload field
Null   == -1
\* socket.data.code before any room:create / room:join (undefined)
NoCode == 0
\* no socket (lastOp of the cleanup timer)
NoSock == 0
\* room.track = null
NoTrack == 0
\* the track payloads {streamUrl, title, originalUrl, directUrl} a host can send
Tracks == {1}
\* serverPlayAt values a payload can carry; Null is an omitted field
PlayAts == {Null, 1}

VARIABLES
  rooms,      \* const rooms = {}: live codes -> room record
  data,       \* socket.data of each socket: [code, isHost]
  joined,     \* socket.io groups: the codes each socket has socket.join()ed
  connected,  \* sockets whose 'disconnect' has not fired
  now,        \* Date.now()
  sent,       \* the emits of the last handler, in order: [ev, to, arg]
  reply,      \* the cb(...) argument of the last handler, or NoReply
  lastOp,     \* the last handler run: [op, sock, code, ok, arg]
  touchedAt,  \* history: per live code, time of creation or last accepted mutation
  steps,      \* history: events so far
  played      \* history: per live code, the audio:play payload last broadcast,
              \*          while no later mutation of that room was accepted

vars == <<rooms, data, joined, connected, now, sent, reply, lastOp, touchedAt, played, steps>>

\* ------------------------------------------------------------- data shapes
\* a room literal that starts at position 1
IdleStateAtPositionOne == [playing |-> FALSE, position |-> 1, serverPlayAt |-> Null]

IdleState == [playing |-> FALSE, position |-> 0, serverPlayAt |-> Null]

NoReply == [ok |-> FALSE, kind |-> "none"]
NoArg   == [position |-> Null, playing |-> FALSE, serverPlayAt |-> Null, track |-> NoTrack,
            clientTime |-> Null, tries |-> 0]
NotPlayed == [on |-> FALSE, position |-> Null, serverPlayAt |-> Null]

Live(code) == code \in DOMAIN rooms

\* rooms[code] guarded by `!room`
Hosts(code, s) == Live(code) /\ rooms[code].host = s

\* io.to(code): every socket currently in the socket.io group `code`
InGroup(jn, code) == {s \in Sockets : code \in jn[s]}
\* io.to(socketId): the socket's own group, left when it disconnects
ToSocket(conn, id) == {id} \cap conn
\* a broadcast that reaches nobody
OthersNobody(jn, code, s) == {}

\* socket.to(code): the group without the sender
Others(jn, code, s) == InGroup(jn, code) \ {s}

Emit(ev, to, arg) == [ev |-> ev, to |-> to, arg |-> arg]

\* number of `ev` events delivered to socket s by the last handler
RECURSIVE CountIn(_, _, _)
CountIn(q, ev, s) ==
  IF q = <<>> THEN 0
  ELSE (IF Head(q).ev = ev /\ s \in Head(q).to THEN 1 ELSE 0) + CountIn(Tail(q), ev, s)

Received(ev, s) == CountIn(sent, ev, s)

Range(q) == {q[i] : i \in DOMAIN q}

\* remove a key from the rooms object / a history map
Without(f, code) == [c \in DOMAIN f \ {code} |-> f[c]]
With(f, code, v) == [c \in DOMAIN f \cup {code} |-> IF c = code THEN v ELSE f[c]]

\* ------------------------------------------------------------------- Init
Init ==
  /\ rooms = <<>>
  /\ data = [s \in Sockets |-> [code |-> NoCode, isHost |-> FALSE]]
  /\ joined = [s \in Sockets |-> {}]
  /\ connected = Sockets
  /\ now = 0
  /\ sent = <<>>
  /\ reply = NoReply
  /\ lastOp = [op |-> "init", sock |-> NoSock, code |-> NoCode, ok |-> FALSE, arg |-> NoArg]
  /\ touchedAt = <<>>
  /\ played = <<>>
  /\ steps = 0

Op(op, s, code, ok, arg) == [op |-> op, sock |-> s, code |-> code, ok |-> ok, arg |-> arg]

\* one more event, within the bound on the length of a run
Step == steps < MaxSteps /\ steps' = steps + 1

\* Date.now() advances between two handlers, by any amount
Tick ==
  /\ Step
  /\ \E t \in Times : t > now /\ now' = t
  /\ lastOp' = Op("tick", NoSock, NoCode, TRUE, NoArg)
  /\ sent' = <<>>
  /\ reply' = NoReply
  /\ UNCHANGED <<rooms, data, joined, connected, touchedAt, played>>

\* --------------------------------------------------------- code generation
\* makeCode() is Math.random(): any code. The retry loop of room:create,
\*   let code = makeCode(), tries = 0;
\*   while (rooms[code] && tries++ < 100) code = makeCode();
\* with `draws` the results of the makeCode() calls inside the loop.
RECURSIVE RetryLoop(_, _, _, _)
RetryLoop(rms, code, tries, draws) ==
  IF code \in DOMAIN rms /\ tries < MaxTries
  THEN RetryLoop(rms, draws[tries + 1], tries + 1, draws)
  ELSE code

\* a room literal without `host: socket.id`
NewRoomOfNobody(s, name, t) ==
  [host |-> NoSock,
   name |-> IF name = "" THEN "Audio Room" ELSE name,
   listeners |-> <<>>,
   track |-> NoTrack,
   state |-> [playing |-> FALSE, position |-> 0, serverPlayAt |-> Null],
   createdAt |-> t]

\* the room literal of room:create
NewRoom(s, name, t) ==
  [host |-> s,
   name |-> IF name = "" THEN "Audio Room" ELSE name,
   listeners |-> <<>>,
   track |-> NoTrack,
   state |-> IdleState,
   createdAt |-> t]

\* names a payload can carry; "" is an omitted name
Names == {""}

\* socket.on('room:create')
RoomCreate(s) ==
  /\ Step
  /\ s \in connected
  /\ \E hasCb \in Callbacks, name \in Names, first \in Codes, draws \in [1..MaxTries -> Codes] :
       IF ~hasCb
       THEN /\ lastOp' = Op("create", s, NoCode, FALSE, NoArg)
            /\ sent' = <<>>
            /\ reply' = NoReply
            /\ UNCHANGED <<rooms, data, joined, connected, now, touchedAt, played>>
       ELSE LET code == RetryLoop(rooms, first, 0, draws)
                room == NewRoom(s, name, now)
            IN /\ rooms' = With(rooms, code, room)
               /\ joined' = [joined EXCEPT ![s] = @ \cup {code}]
               /\ data' = [data EXCEPT ![s] = [code |-> code, isHost |-> TRUE]]
               /\ reply' = [ok |-> TRUE, kind |-> "created", code |-> code, name |-> room.name]
               /\ sent' = <<>>
               /\ lastOp' = Op("create", s, code, TRUE, NoArg)
               /\ touchedAt' = With(touchedAt, code, now)
               /\ played' = With(played, code, NotPlayed)
               /\ UNCHANGED <<connected, now>>

\* the code strings a room:join payload can carry: c is a code as makeCode
\* writes it, -c the same code in another spelling (lower case, padded with
\* blanks), 0 an omitted code
RawCodes == {0} \cup Codes \cup {0 - c : c \in Codes}

\* (code || '').toUpperCase().trim()
Normalize(raw) == IF raw < 0 THEN 0 - raw ELSE raw

\* `room.listeners.length >= 50`
Full(room) == Len(room.listeners) >= MaxListeners

\* the join handler answering {ok: true} where it found no room
NotFoundReplyOk == [ok |-> TRUE, kind |-> "notfound"]

\* cb({ ok: false, error: 'Room not found. Check the code.' })
NotFoundReply == [ok |-> FALSE, kind |-> "notfound"]

\* a reply built from the state literal of room:create instead of room.state
JoinReplyFresh(room) ==
  [ok |-> TRUE, kind |-> "joined", name |-> room.name, track |-> room.track,
   state |-> IdleState, listenerCount |-> Len(room.listeners)]

\* the cb({ok: true, ...}) of room:join
JoinReply(room) ==
  [ok |-> TRUE, kind |-> "joined", name |-> room.name, track |-> room.track,
   state |-> room.state, listenerCount |-> Len(room.listeners)]

\* socket.on('room:join'). A message without callback returns before the
\* payload is looked at: lastOp records Null as its code.
RoomJoin(s) ==
  /\ Step
  /\ s \in connected
  /\ \E hasCb \in Callbacks, raw \in RawCodes :
       LET code == Normalize(raw) IN
       IF ~hasCb
       THEN /\ lastOp' = Op("join", s, Null, FALSE, NoArg)
            /\ sent' = <<>>
            /\ reply' = NoReply
            /\ UNCHANGED <<rooms, data, joined, connected, now, touchedAt, played>>
       ELSE IF ~Live(code)
       THEN /\ reply' = NotFoundReply
            /\ lastOp' = Op("join", s, code, FALSE, NoArg)
            /\ sent' = <<>>
            /\ UNCHANGED <<rooms, data, joined, connected, now, touchedAt, played>>
       ELSE IF Full(rooms[code])
       THEN /\ reply' = [ok |-> FALSE, kind |-> "full"]
            /\ lastOp' = Op("join", s, code, FALSE, NoArg)
            /\ sent' = <<>>
            /\ UNCHANGED <<rooms, data, joined, connected, now, touchedAt, played>>
       ELSE LET room == [rooms[code] EXCEPT !.listeners = Append(@, s)]
                n == Len(room.listeners)
            IN /\ rooms' = [rooms EXCEPT ![code] = room]
               /\ joined' = [joined EXCEPT ![s] = @ \cup {code}]
               /\ data' = [data EXCEPT ![s] = [code |-> code, isHost |-> FALSE]]
               /\ sent' = << Emit("room:listener_joined", ToSocket(connected, room.host),
                                  [id |-> s, count |-> n]),
                             Emit("room:count", InGroup(joined', code), [count |-> n]) >>
               /\ reply' = JoinReply(room)
               /\ lastOp' = Op("join", s, code, TRUE, NoArg)
               /\ UNCHANGED <<connected, now, touchedAt, played>>

\* ------------------------------------------------------ host-only mutations
\* the host check without its second half: `if (!room) return;`
AuthorizedAnyMember(s) == Live(data[s].code)

\* const room = rooms[socket.data.code];
\* if (!room || room.host !== socket.id) return;
Authorized(s) == Hosts(data[s].code, s)

\* a pause that stores position 0 instead of the position sent
PauseStateAtZero(position) ==
  [playing |-> FALSE, position |-> 0, serverPlayAt |-> Null]

\* a seek that stores serverPlayAt as sent
SeekStateAsSent(position, playing, serverPlayAt) ==
  [playing |-> playing, position |-> position, serverPlayAt |-> serverPlayAt]

\* a track:set that leaves the position where it was last paused
IdleStateAtOne == [playing |-> FALSE, position |-> 1, serverPlayAt |-> Null]

\* { playing: false, position: 0, serverPlayAt: null } as track:set stores it
TrackSetState == [playing |-> FALSE, position |-> 0, serverPlayAt |-> Null]

\* the state literals the handlers store
PlayState(position, serverPlayAt) ==
  [playing |-> TRUE, position |-> position, serverPlayAt |-> serverPlayAt]
PauseState(position) ==
  [playing |-> FALSE, position |-> position, serverPlayAt |-> Null]
SeekState(position, playing, serverPlayAt) ==
  [playing |-> playing, position |-> position,
   serverPlayAt |-> IF playing THEN serverPlayAt ELSE Null]

\* a host check that answers the sender with an error event
RejectedWithError(op, s) ==
  /\ lastOp' = Op(op, s, data[s].code, FALSE, NoArg)
  /\ sent' = << Emit("error", {s}, NoArg) >>
  /\ reply' = NoReply
  /\ UNCHANGED <<rooms, data, joined, connected, now, touchedAt, played>>

\* a handler that returned at the host check
Rejected(op, s) ==
  /\ lastOp' = Op(op, s, data[s].code, FALSE, NoArg)
  /\ sent' = <<>>
  /\ reply' = NoReply
  /\ UNCHANGED <<rooms, data, joined, connected, now, touchedAt, played>>

\* what an accepted mutation does to everything but rooms and sent.
\* The handlers write no timestamp into the room; touchedAt records the time
\* of the mutation for the properties that speak of "last activity".
Accepted(op, s, arg, pl) ==
  /\ lastOp' = Op(op, s, data[s].code, TRUE, arg)
  /\ reply' = NoReply
  /\ touchedAt' = [touchedAt EXCEPT ![data[s].code] = now]
  /\ played' = [played EXCEPT ![data[s].code] = pl]
  /\ UNCHANGED <<data, joined, connected, now>>

\* a track:set that writes the track and the reset state into every live room
TrackSetAllRooms(s) ==
  /\ Step
  /\ s \in connected
  /\ \E t \in Tracks :
       LET code == data[s].code
           arg == [NoArg EXCEPT !.track = t]
       IN IF ~Authorized(s) THEN Rejected("track:set", s)
          ELSE /\ rooms' = [c \in DOMAIN rooms |->
                             [rooms[c] EXCEPT !.track = t, !.state = TrackSetState]]
               /\ sent' = << Emit("track:set", Others(joined, code, s), [track |-> t]) >>
               /\ Accepted("track:set", s, arg, NotPlayed)

\* socket.on('track:set')
TrackSet(s) ==
  /\ Step
  /\ s \in connected
  /\ \E t \in Tracks :
       LET code == data[s].code
           arg == [NoArg EXCEPT !.track = t]
       IN IF ~Authorized(s) THEN Rejected("track:set", s)
          ELSE /\ rooms' = [rooms EXCEPT ![code].track = t, ![code].state = TrackSetState]
               /\ sent' = << Emit("track:set", Others(joined, code, s), [track |-> t]) >>
               /\ Accepted("track:set", s, arg, NotPlayed)

\* socket.on('audio:play')
AudioPlay(s) ==
  /\ Step
  /\ s \in connected
  /\ \E position \in Positions, serverPlayAt \in PlayAts :
       LET code == data[s].code
           arg == [NoArg EXCEPT !.position = position, !.serverPlayAt = serverPlayAt]
           payload == [position |-> position, serverPlayAt |-> serverPlayAt]
       IN IF ~Authorized(s) THEN Rejected("audio:play", s)
          ELSE /\ rooms' = [rooms EXCEPT ![code].state = PlayState(position, serverPlayAt)]
               /\ sent' = << Emit("audio:play", Others(joined, code, s), payload) >>
               /\ Accepted("audio:play", s, arg,
                           [on |-> TRUE, position |-> payload.position,
                            serverPlayAt |-> payload.serverPlayAt])

\* socket.on('audio:pause')
AudioPause(s) ==
  /\ Step
  /\ s \in connected
  /\ \E position \in Positions :
       LET code == data[s].code
           arg == [NoArg EXCEPT !.position = position]
       IN IF ~Authorized(s) THEN Rejected("audio:pause", s)
          ELSE /\ rooms' = [rooms EXCEPT ![code].state = PauseState(position)]
               /\ sent' = << Emit("audio:pause", Others(joined, code, s),
                                  [position |-> position]) >>
               /\ Accepted("audio:pause", s, arg, NotPlayed)

\* socket.on('audio:seek')
AudioSeek(s) ==
  /\ Step
  /\ s \in connected
  /\ \E position \in Positions, playing \in BOOLEAN, serverPlayAt \in PlayAts :
       LET code == data[s].code
           arg == [NoArg EXCEPT !.position = position, !.playing = playing,
                                !.serverPlayAt = serverPlayAt]
       IN IF ~Authorized(s) THEN Rejected("audio:seek", s)
          ELSE /\ rooms' = [rooms EXCEPT ![code].state =
                                SeekState(position, playing, serverPlayAt)]
               /\ sent' = << Emit("audio:seek", Others(joined, code, s),
                                  [position |-> position, playing |-> playing,
                                   serverPlayAt |-> serverPlayAt]) >>
               /\ Accepted("audio:seek", s, arg, NotPlayed)

\* ------------------------------------------------------------- clock sync
\* a pong that carries the server's time in both fields
PongServerTimeOnly(clientTime, serverTime) ==
  [clientTime |-> serverTime, serverTime |-> serverTime]

\* { clientTime, serverTime: Date.now() }
Pong(clientTime, serverTime) ==
  [clientTime |-> clientTime, serverTime |-> serverTime]

\* socket.on('ntp:ping')
NtpPing(s) ==
  /\ Step
  /\ s \in connected
  /\ \E clientTime \in ClientTimes :
       /\ sent' = << Emit("ntp:pong", {s}, Pong(clientTime, now)) >>
       /\ lastOp' = Op("ntp:ping", s, data[s].code, TRUE,
                       [NoArg EXCEPT !.clientTime = clientTime])
       /\ reply' = NoReply
       /\ UNCHANGED <<rooms, data, joined, connected, now, touchedAt, played>>

\* a keepalive that acknowledges to every socket of the sender's room
KeepaliveAckToRoom(s) ==
  /\ Step
  /\ s \in connected
  /\ sent' = << Emit("keepalive-ack", {s} \cup InGroup(joined, data[s].code), NoArg) >>
  /\ lastOp' = Op("keepalive", s, data[s].code, TRUE, NoArg)
  /\ reply' = NoReply
  /\ UNCHANGED <<rooms, data, joined, connected, now, touchedAt, played>>

\* socket.on('keepalive')
Keepalive(s) ==
  /\ Step
  /\ s \in connected
  /\ sent' = << Emit("keepalive-ack", {s}, NoArg) >>
  /\ lastOp' = Op("keepalive", s, data[s].code, TRUE, NoArg)
  /\ reply' = NoReply
  /\ UNCHANGED <<rooms, data, joined, connected, now, touchedAt, played>>

\* -------------------------------------------------------------- disconnect
\* room.listeners.filter(id => id !== socket.id)
FilterOut(listeners, s) == SelectSeq(listeners, LAMBDA id : id # s)

\* socket.on('disconnect'): socket.io has already taken the socket out of
\* every group (its own included) when this handler runs
Disconnect(s) ==
  /\ Step
  /\ s \in connected
  /\ connected' = connected \ {s}
  /\ joined' = [joined EXCEPT ![s] = {}]
  /\ reply' = NoReply
  /\ LET code == data[s].code IN
       IF code = NoCode \/ ~Live(code)
       THEN /\ lastOp' = Op("disconnect", s, code, FALSE, NoArg)
            /\ sent' = <<>>
            /\ UNCHANGED <<rooms, touchedAt, played>>
       ELSE IF data[s].isHost
       THEN /\ sent' = << Emit("room:host_left", InGroup(joined', code), NoArg) >>
            /\ rooms' = Without(rooms, code)
            /\ touchedAt' = Without(touchedAt, code)
            /\ played' = Without(played, code)
            /\ lastOp' = Op("disconnect", s, code, TRUE, NoArg)
       ELSE LET room == [rooms[code] EXCEPT !.listeners = FilterOut(@, s)]
                n == Len(room.listeners)
            IN /\ rooms' = [rooms EXCEPT ![code] = room]
               /\ sent' = << Emit("room:listener_left", ToSocket(connected', room.host),
                                  [id |-> s, count |-> n]),
                             Emit("room:count", InGroup(joined', code), [count |-> n]) >>
               /\ lastOp' = Op("disconnect", s, code, TRUE, NoArg)
               /\ UNCHANGED <<touchedAt, played>>
  /\ UNCHANGED <<data, now>>

\* ----------------------------------------------------------------- cleanup
\* the comparison off by one tick
ExpiredLate(room, t) == t - room.createdAt > ROOM_TTL + 1

\* `now - room.createdAt > ROOM_TTL`
Expired(room, t) == t - room.createdAt > ROOM_TTL

ExpiredCodes == {c \in DOMAIN rooms : Expired(rooms[c], now)}

\* one io.to(code).emit('room:host_left') per expired room. The events carry
\* no payload, so the order of the loop over Object.entries(rooms) cannot be
\* observed; the model emits in code order.
RECURSIVE SweepEmits(_)
SweepEmits(cs) ==
  IF cs = {} THEN <<>>
  ELSE LET c == CHOOSE x \in cs : \A y \in cs : x <= y
       IN <<Emit("room:host_left", InGroup(joined, c), NoArg)>> \o SweepEmits(cs \ {c})

\* the setInterval callback
Sweep ==
  /\ Step
  /\ sent' = SweepEmits(ExpiredCodes)
  /\ rooms' = [c \in DOMAIN rooms \ ExpiredCodes |-> rooms[c]]
  /\ touchedAt' = [c \in DOMAIN rooms \ ExpiredCodes |-> touchedAt[c]]
  /\ played' = [c \in DOMAIN rooms \ ExpiredCodes |-> played[c]]
  /\ lastOp' = Op("sweep", NoSock, NoCode, ExpiredCodes # {}, NoArg)
  /\ reply' = NoReply
  /\ UNCHANGED <<data, joined, connected, now>>

Next ==
  \/ Tick
  \/ Sweep
  \/ \E s \in Sockets : RoomCreate(s)
  \/ \E s \in Sockets : RoomJoin(s)
  \/ \E s \in Sockets : TrackSet(s)
  \/ \E s \in Sockets : AudioPlay(s)
  \/ \E s \in Sockets : AudioPause(s)
  \/ \E s \in Sockets : AudioSeek(s)
  \/ \E s \in Sockets : NtpPing(s)
  \/ \E s \in Sockets : Keepalive(s)
  \/ \E s \in Sockets : Disconnect(s)

Spec == Init /\ [][Next]_vars
\* ===================================================================
\* src/unnamed/part_000: an earlier build of the same server. Its track:set,
\* audio:play, audio:pause, audio:seek, ntp:ping and keepalive handlers are
\* statement for statement those modelled above; room:create, room:join,
\* disconnect and the cleanup differ and are modelled here.
\* ===================================================================
\* socket.on('room:create') of part_000: no `typeof cb` guard and no
\* .slice(0, 50). Only messages that carry a callback are modelled (without
\* one the handler throws at cb(...)).
RoomCreate000(s) ==
  /\ Step
  /\ s \in connected
  /\ \E name \in Names, first \in Codes, draws \in [1..MaxTries -> Codes] :
       LET code == RetryLoop(rooms, first, 0, draws)
           room == NewRoom(s, name, now)
       IN /\ rooms' = With(rooms, code, room)
          /\ joined' = [joined EXCEPT ![s] = @ \cup {code}]
          /\ data' = [data EXCEPT ![s] = [code |-> code, isHost |-> TRUE]]
          /\ reply' = [ok |-> TRUE, kind |-> "created", code |-> code, name |-> room.name]
          /\ sent' = <<>>
          /\ lastOp' = Op("create", s, code, TRUE, NoArg)
          /\ touchedAt' = With(touchedAt, code, now)
          /\ played' = With(played, code, NotPlayed)
          /\ UNCHANGED <<connected, now>>

\* cb({ ok: true, name, track, state }) of part_000
JoinReply000(room) ==
  [ok |-> TRUE, kind |-> "joined", name |-> room.name, track |-> room.track,
   state |-> room.state]

\* socket.on('room:join') of part_000: rooms[code] with the code as sent (no
\* normalisation), no limit on listeners, room:listener_joined without count
RoomJoin000(s) ==
  /\ Step
  /\ s \in connected
  /\ \E raw \in RawCodes :
       IF ~Live(raw)
       THEN /\ reply' = [ok |-> FALSE, kind |-> "notfound"]
            /\ lastOp' = Op("join", s, raw, FALSE, NoArg)
            /\ sent' = <<>>
            /\ UNCHANGED <<rooms, data, joined, connected, now, touchedAt, played>>
       ELSE LET room == [rooms[raw] EXCEPT !.listeners = Append(@, s)]
                n == Len(room.listeners)
            IN /\ rooms' = [rooms EXCEPT ![raw] = room]
               /\ joined' = [joined EXCEPT ![s] = @ \cup {raw}]
               /\ data' = [data EXCEPT ![s] = [code |-> raw, isHost |-> FALSE]]
               /\ sent' = << Emit("room:listener_joined", ToSocket(connected, room.host),
                                  [id |-> s]),
                             Emit("room:count", InGroup(joined', raw), [count |-> n]) >>
               /\ reply' = JoinReply000(room)
               /\ lastOp' = Op("join", s, raw, TRUE, NoArg)
               /\ UNCHANGED <<connected, now, touchedAt, played>>

\* socket.on('disconnect') of part_000: room:listener_left without count
Disconnect000(s) ==
  /\ Step
  /\ s \in connected
  /\ connected' = connected \ {s}
  /\ joined' = [joined EXCEPT ![s] = {}]
  /\ reply' = NoReply
  /\ LET code == data[s].code IN
       IF code = NoCode \/ ~Live(code)
       THEN /\ lastOp' = Op("disconnect", s, code, FALSE, NoArg)
            /\ sent' = <<>>
            /\ UNCHANGED <<rooms, touchedAt, played>>
       ELSE IF data[s].isHost
       THEN /\ sent' = << Emit("room:host_left", InGroup(joined', code), NoArg) >>
            /\ rooms' = Without(rooms, code)
            /\ touchedAt' = Without(touchedAt, code)
            /\ played' = Without(played, code)
            /\ lastOp' = Op("disconnect", s, code, TRUE, NoArg)
       ELSE LET room == [rooms[code] EXCEPT !.listeners = FilterOut(@, s)]
                n == Len(room.listeners)
            IN /\ rooms' = [rooms EXCEPT ![code] = room]
               /\ sent' = << Emit("room:listener_left", ToSocket(connected', room.host),
                                  [id |-> s]),
                             Emit("room:count", InGroup(joined', code), [count |-> n]) >>
               /\ lastOp' = Op("disconnect", s, code, TRUE, NoArg)
               /\ UNCHANGED <<touchedAt, played>>
  /\ UNCHANGED <<data, now>>

\* the setInterval callback of part_000: `delete rooms[code]` and nothing else
Sweep000 ==
  /\ Step
  /\ sent' = <<>>
  /\ rooms' = [c \in DOMAIN rooms \ ExpiredCodes |-> rooms[c]]
  /\ touchedAt' = [c \in DOMAIN rooms \ ExpiredCodes |-> touchedAt[c]]
  /\ played' = [c \in DOMAIN rooms \ ExpiredCodes |-> played[c]]
  /\ lastOp' = Op("sweep", NoSock, NoCode, ExpiredCodes # {}, NoArg)
  /\ reply' = NoReply
  /\ UNCHANGED <<data, joined, connected, now>>

Next000 ==
  \/ Tick
  \/ Sweep000
  \/ \E s \in Sockets : RoomCreate000(s)
  \/ \E s \in Sockets : RoomJoin000(s)
  \/ \E s \in Sockets : TrackSet(s)
  \/ \E s \in Sockets : AudioPlay(s)
  \/ \E s \in Sockets : AudioPause(s)
  \/ \E s \in Sockets : AudioSeek(s)
  \/ \E s \in Sockets : NtpPing(s)
  \/ \E s \in Sockets : Keepalive(s)
  \/ \E s \in Sockets : Disconnect000(s)

Spec000 == Init /\ [][Next000]_vars

\* ===================================================================
\* src/server.js lines 25-151: the streaming build (the host relays audio
\* chunks instead of sharing a track). It has its own rooms object, no
\* cleanup timer and no track / state fields.
\* ===================================================================
\* mime values a stream:start payload can carry; Null is an omitted field
Mimes == {Null, 1}
\* 'audio/webm;codecs=opus'
DefaultMime == 0
\* seq values of a stream:chunk payload
Seqs == {0, 1}

\* the room literal of the streaming room:create
NewStreamRoom(s, name) ==
  [host |-> s,
   name |-> IF name = "" THEN "Audio Room" ELSE name,
   listeners |-> <<>>,
   streaming |-> FALSE,
   mime |-> DefaultMime,
   startedAt |-> Null,
   chunkCount |-> 0]

\* socket.on('room:create'), streaming build: no `typeof cb` guard. Only
\* messages that carry a callback are modelled.
StreamRoomCreate(s) ==
  /\ Step
  /\ s \in connected
  /\ \E name \in Names, first \in Codes, draws \in [1..MaxTries -> Codes] :
       LET code == RetryLoop(rooms, first, 0, draws)
           room == NewStreamRoom(s, name)
       IN /\ rooms' = With(rooms, code, room)
          /\ joined' = [joined EXCEPT ![s] = @ \cup {code}]
          /\ data' = [data EXCEPT ![s] = [code |-> code, isHost |-> TRUE]]
          /\ reply' = [ok |-> TRUE, kind |-> "created", code |-> code, name |-> room.name]
          /\ sent' = <<>>
          /\ lastOp' = Op("create", s, code, TRUE, NoArg)
          /\ UNCHANGED <<connected, now, touchedAt, played>>

\* cb({ ok: true, name, streaming, mime })
StreamJoinReply(room) ==
  [ok |-> TRUE, kind |-> "joined", name |-> room.name,
   streaming |-> room.streaming, mime |-> room.mime]

\* socket.on('room:join'), streaming build
StreamRoomJoin(s) ==
  /\ Step
  /\ s \in connected
  /\ \E raw \in RawCodes :
       LET c == Normalize(raw) IN
       IF ~Live(c)
       THEN /\ reply' = [ok |-> FALSE, kind |-> "notfound"]
            /\ lastOp' = Op("join", s, c, FALSE, NoArg)
            /\ sent' = <<>>
            /\ UNCHANGED <<rooms, data, joined, connected, now, touchedAt, played>>
       ELSE LET room == [rooms[c] EXCEPT !.listeners = Append(@, s)]
            IN /\ rooms' = [rooms EXCEPT ![c] = room]
               /\ joined' = [joined EXCEPT ![s] = @ \cup {c}]
               /\ data' = [data EXCEPT ![s] = [code |-> c, isHost |-> FALSE]]
               /\ sent' = << Emit("listener:joined", ToSocket(connected, room.host),
                                  [id |-> s, count |-> Len(room.listeners)]) >>
               /\ reply' = StreamJoinReply(room)
               /\ lastOp' = Op("join", s, c, TRUE, NoArg)
               /\ UNCHANGED <<connected, now, touchedAt, played>>

\* a stream handler that returned at the host check
StreamRejected(op, s) ==
  /\ lastOp' = Op(op, s, data[s].code, FALSE, NoArg)
  /\ sent' = <<>>
  /\ UNCHANGED rooms

\* socket.on('stream:start')
StreamStart(s) ==
  /\ Step
  /\ s \in connected
  /\ reply' = NoReply
  /\ UNCHANGED <<data, joined, connected, now, touchedAt, played>>
  /\ \E mime \in Mimes :
       LET code == data[s].code
           m == IF mime = Null THEN DefaultMime ELSE mime
       IN IF ~Authorized(s) THEN StreamRejected("stream:start", s)
          ELSE /\ rooms' = [rooms EXCEPT ![code].streaming = TRUE,
                                         ![code].mime = m,
                                         ![code].startedAt = now,
                                         ![code].chunkCount = 0]
               /\ sent' = << Emit("stream:start", Others(joined, code, s),
                                  [mime |-> m, serverTime |-> now]) >>
               /\ lastOp' = Op("stream:start", s, code, TRUE, NoArg)

\* socket.on('stream:chunk'); the chunk's data is not modelled
StreamChunk(s) ==
  /\ Step
  /\ s \in connected
  /\ reply' = NoReply
  /\ UNCHANGED <<data, joined, connected, now, touchedAt, played>>
  /\ \E seq \in Seqs :
       LET code == data[s].code
       IN IF ~Authorized(s) THEN StreamRejected("stream:chunk", s)
          ELSE /\ rooms' = [rooms EXCEPT ![code].chunkCount = @ + 1]
               /\ sent' = << Emit("stream:chunk", Others(joined, code, s),
                                  [seq |-> seq, ts |-> now]) >>
               /\ lastOp' = Op("stream:chunk", s, code, TRUE, NoArg)

\* socket.on('stream:stop')
StreamStop(s) ==
  /\ Step
  /\ s \in connected
  /\ reply' = NoReply
  /\ UNCHANGED <<data, joined, connected, now, touchedAt, played>>
  /\ LET code == data[s].code
     IN IF ~Authorized(s) THEN StreamRejected("stream:stop", s)
        ELSE /\ rooms' = [rooms EXCEPT ![code].streaming = FALSE]
             /\ sent' = << Emit("stream:stop", Others(joined, code, s), NoArg) >>
             /\ lastOp' = Op("stream:stop", s, code, TRUE, NoArg)

\* socket.on('keepalive'), streaming build
StreamKeepalive(s) ==
  /\ Step
  /\ s \in connected
  /\ sent' = << Emit("keepalive:ack", {s}, NoArg) >>
  /\ lastOp' = Op("keepalive", s, data[s].code, TRUE, NoArg)
  /\ reply' = NoReply
  /\ UNCHANGED <<rooms, data, joined, connected, now, touchedAt, played>>

\* socket.on('disconnect'), streaming build: branches on room.host === socket.id
StreamDisconnect(s) ==
  /\ Step
  /\ s \in connected
  /\ connected' = connected \ {s}
  /\ joined' = [joined EXCEPT ![s] = {}]
  /\ reply' = NoReply
  /\ LET code == data[s].code IN
       IF code = NoCode \/ ~Live(code)
       THEN /\ lastOp' = Op("disconnect", s, code, FALSE, NoArg)
            /\ sent' = <<>>
            /\ UNCHANGED rooms
       ELSE IF rooms[code].host = s
       THEN /\ sent' = << Emit("host:left", Others(joined', code, s), NoArg) >>
            /\ rooms' = Without(rooms, code)
            /\ lastOp' = Op("disconnect", s, code, TRUE, NoArg)
       ELSE LET room == [rooms[code] EXCEPT !.listeners = FilterOut(@, s)]
            IN /\ rooms' = [rooms EXCEPT ![code] = room]
               /\ sent' = << Emit("listener:left", ToSocket(connected', room.host),
                                  [id |-> s, count |-> Len(room.listeners)]) >>
               /\ lastOp' = Op("disconnect", s, code, TRUE, NoArg)
  /\ UNCHANGED <<data, now, touchedAt, played>>

NextStream ==
  \/ Tick
  \/ \E s \in Sockets : StreamRoomCreate(s)
  \/ \E s \in Sockets : StreamRoomJoin(s)
  \/ \E s \in Sockets : StreamStart(s)
  \/ \E s \in Sockets : StreamChunk(s)
  \/ \E s \in Sockets : StreamStop(s)
  \/ \E s \in Sockets : NtpPing(s)
  \/ \E s \in Sockets : StreamKeepalive(s)
  \/ \E s \in Sockets : StreamDisconnect(s)

SpecStream == Init /\ [][NextStream]_vars

\* ===================================================================
\* src/unnamed/part_003: the first build. No cleanup timer, no createdAt,
\* and a room:create that draws codes until one is free. Its other handlers
\* are statement for statement those of part_000 and of the main build.
\*
\* The loop of room:create has no bound, so the handler is modelled one
\* makeCode() call per step: while it is in the loop, lastOp is a
\* "create:loop" record (the sender, the code just drawn, the number of calls
\* so far) and no other handler runs (Node is inside the callback).
\* ===================================================================
Spinning == lastOp.op = "create:loop"

\* the room literal of part_003
NewRoom003(s, name) ==
  [host |-> s,
   name |-> IF name = "" THEN "Audio Room" ELSE name,
   listeners |-> <<>>,
   track |-> NoTrack,
   state |-> [playing |-> FALSE, position |-> 0, serverPlayAt |-> Null]]

\* `while (rooms[code])` found the code live: one more turn of the loop
Collide003(s, code, n) ==
  /\ lastOp' = Op("create:loop", s, code, FALSE, [NoArg EXCEPT !.tries = n])
  /\ sent' = <<>>
  /\ reply' = NoReply
  /\ UNCHANGED <<rooms, data, joined, connected, now, touchedAt, played>>

\* the code is free: the statements after the loop, after n makeCode() calls
Register003(s, code, name, n) ==
  LET room == NewRoom003(s, name)
  IN /\ rooms' = With(rooms, code, room)
     /\ joined' = [joined EXCEPT ![s] = @ \cup {code}]
     /\ data' = [data EXCEPT ![s] = [code |-> code, isHost |-> TRUE]]
     /\ reply' = [ok |-> TRUE, kind |-> "created", code |-> code, name |-> room.name]
     /\ sent' = <<>>
     /\ lastOp' = Op("create", s, code, TRUE, [NoArg EXCEPT !.tries = n])
     /\ touchedAt' = With(touchedAt, code, now)
     /\ played' = With(played, code, NotPlayed)
     /\ UNCHANGED <<connected, now>>

\* socket.on('room:create') of part_003 up to the first test of the loop:
\* `let code = makeCode();`
RoomCreate003(s) ==
  /\ Step
  /\ ~Spinning
  /\ s \in connected
  /\ \E name \in Names, code \in Codes :
       IF Live(code) THEN Collide003(s, code, 1) ELSE Register003(s, code, name, 1)

\* one turn of `while (rooms[code]) code = makeCode();`
CreateLoop003 ==
  /\ Step
  /\ Spinning
  /\ \E name \in Names, code \in Codes :
       IF Live(code) THEN Collide003(lastOp.sock, code, lastOp.arg.tries + 1)
       ELSE Register003(lastOp.sock, code, name, lastOp.arg.tries + 1)

RoomJoin003(s)   == ~Spinning /\ RoomJoin000(s)
TrackSet003(s)   == ~Spinning /\ TrackSet(s)
AudioPlay003(s)  == ~Spinning /\ AudioPlay(s)
AudioPause003(s) == ~Spinning /\ AudioPause(s)
AudioSeek003(s)  == ~Spinning /\ AudioSeek(s)
NtpPing003(s)    == ~Spinning /\ NtpPing(s)
Keepalive003(s)  == ~Spinning /\ Keepalive(s)
Disconnect003(s) == ~Spinning /\ Disconnect000(s)
Tick003          == ~Spinning /\ Tick

Next003 ==
  \/ Tick003
  \/ CreateLoop003
  \/ \E s \in Sockets : RoomCreate003(s)
  \/ \E s \in Sockets : RoomJoin003(s)
  \/ \E s \in Sockets : TrackSet003(s)
  \/ \E s \in Sockets : AudioPlay003(s)
  \/ \E s \in Sockets : AudioPause003(s)
  \/ \E s \in Sockets : AudioSeek003(s)
  \/ \E s \in Sockets : NtpPing003(s)
  \/ \E s \in Sockets : Keepalive003(s)
  \/ \E s \in Sockets : Disconnect003(s)

Spec003 == Init /\ [][Next003]_vars

\* part_003 with the scheduling it has: Date.now() advances, and a handler
\* that is inside the loop of room:create takes its next turn. Messages and
\* disconnects are the clients' doing and are under no fairness.
Fair003 == Spec003 /\ WF_vars(Tick003) /\ WF_vars(CreateLoop003)

\* ===================================================================
\* Properties
\* ===================================================================
Mutations == {"track:set", "audio:play", "audio:pause", "audio:seek"}

\* number of `ev` emits in a handler's output
NumEmits(q, ev) == Cardinality({i \in DOMAIN q : q[i].ev = ev})

\* C1: a track:set / audio:play / audio:pause / audio:seek message from a
\* connection that is not the recorded host of a live room leaves that room
\* registered with its track and state unchanged.
C1_Authority ==
  [][ lastOp'.op \in Mutations =>
        \A c \in DOMAIN rooms :
          rooms[c].host # lastOp'.sock =>
            /\ c \in DOMAIN rooms'
            /\ rooms'[c].track = rooms[c].track
            /\ rooms'[c].state = rooms[c].state ]_vars

\* a listener of a live room with a track set sent a mutation and it was dropped
C1_Witness ==
  /\ lastOp.op \in Mutations
  /\ ~lastOp.ok
  /\ lastOp.code \in DOMAIN rooms
  /\ lastOp.sock \in Range(rooms[lastOp.code].listeners)
  /\ rooms[lastOp.code].host # lastOp.sock
  /\ rooms[lastOp.code].track # NoTrack

\* C2: in every live room state.serverPlayAt is non-null exactly when
\* state.playing is true.
C2_ServerPlayAtIffPlaying ==
  \A c \in DOMAIN rooms :
    (rooms[c].state.serverPlayAt # Null) <=> rooms[c].state.playing

\* C3: when the recorded host of a live room disconnects, every connection
\* still open in the room's listeners gets exactly one room:host_left and the room is gone
\* from the registry (so that a later room:join with its code finds no room).
C3_HostDepartureCascade ==
  [][ lastOp'.op = "disconnect" =>
        \A c \in DOMAIN rooms :
          rooms[c].host = lastOp'.sock =>
            /\ c \notin DOMAIN rooms'
            /\ \A l \in Range(rooms[c].listeners) \cap connected' :
                 CountIn(sent', "room:host_left", l) = 1 ]_vars

\* C4: a room:create leaves every room that was live registered under its
\* code with an unchanged record, and answers with a code that was not live.
C4_CodeNeverReused ==
  [][ (lastOp'.op = "create" /\ lastOp'.ok) =>
        /\ \A c \in DOMAIN rooms : c \in DOMAIN rooms' /\ rooms'[c] = rooms[c]
        /\ reply'.code \notin DOMAIN rooms ]_vars

\* C5: room:create answers {ok: true, code} only with a code that was free;
\* when no code is free (every candidate collides) it answers {ok: false}
\* and registers nothing.
C5_CollisionFails ==
  [][ lastOp'.op = "create" =>
        /\ reply'.ok => reply'.code \notin DOMAIN rooms
        /\ DOMAIN rooms = Codes => (~reply'.ok /\ rooms' = rooms) ]_vars

\* C6: while the last accepted mutation of a room is an audio:play, a
\* successful room:join answers with state {playing: true, position,
\* serverPlayAt} equal to the payload that play broadcast, and with the
\* room's current track.
C6_LateJoinConvergence ==
  (lastOp.op = "join" /\ lastOp.ok /\ played[lastOp.code].on) =>
    /\ reply.state = [playing |-> TRUE,
                      position |-> played[lastOp.code].position,
                      serverPlayAt |-> played[lastOp.code].serverPlayAt]
    /\ reply.track = rooms[lastOp.code].track

\* a second listener joined after a play{position: 1, serverPlayAt: 1} on a
\* room that has a track
C6_Witness ==
  /\ lastOp.op = "join" /\ lastOp.ok
  /\ played[lastOp.code].on
  /\ played[lastOp.code].position = 1
  /\ played[lastOp.code].serverPlayAt = 1
  /\ reply.state.playing
  /\ Len(rooms[lastOp.code].listeners) = 2

\* C7: every live room has a host, and the host is not in the room's listeners.
C7_HostNotListener ==
  \A c \in DOMAIN rooms :
    /\ rooms[c].host \in Sockets
    /\ rooms[c].host \notin Range(rooms[c].listeners)

\* C8: a room whose last accepted mutation is less than ROOM_TTL old when the
\* cleanup runs is still registered after it.
C8_ActiveSurvivesSweep ==
  [][ lastOp'.op = "sweep" =>
        \A c \in DOMAIN rooms :
          now - touchedAt[c] < ROOM_TTL => c \in DOMAIN rooms' ]_vars

\* C9: a room whose last activity (its creation or its last accepted
\* mutation) is older than now - ROOM_TTL when the cleanup runs is not
\* registered after it.
C9_IdleRemovedBySweep ==
  [][ lastOp'.op = "sweep" =>
        \A c \in DOMAIN rooms :
          touchedAt[c] < now - ROOM_TTL => c \notin DOMAIN rooms' ]_vars

\* the cleanup removed a room that nobody had touched since its creation
\* (the only events so far are its room:create, a clock advance and this
\* cleanup)
C9_Witness ==
  /\ lastOp.op = "sweep" /\ lastOp.ok
  /\ steps = 3
  /\ rooms = <<>>

\* C10: the disconnect of a connection that is in the listeners of a live
\* room, and is not its host, keeps the room registered, takes the connection
\* out of listeners, emits exactly one room:count carrying the new size of
\* listeners and delivers one room:listener_left to the host.
C10_ListenerChurnNeutral ==
  [][ lastOp'.op = "disconnect" =>
        \A c \in DOMAIN rooms :
          (lastOp'.sock \in Range(rooms[c].listeners) /\ rooms[c].host # lastOp'.sock) =>
            /\ c \in DOMAIN rooms'
            /\ lastOp'.sock \notin Range(rooms'[c].listeners)
            /\ NumEmits(sent', "room:count") = 1
            /\ \A i \in DOMAIN sent' :
                 sent'[i].ev = "room:count" => sent'[i].arg.count = Len(rooms'[c].listeners)
            /\ (rooms[c].host \in connected =>
                  CountIn(sent', "room:listener_left", rooms[c].host) = 1) ]_vars

\* every socket some emit of the handler output q was delivered to
Reached(q) == UNION {q[i].to : i \in DOMAIN q}

\* C11: an accepted track:set / audio:play / audio:pause / audio:seek delivers
\* exactly one event of that name to every open connection in the room's
\* listeners, none to the host that sent it, and nothing to a connection that
\* is neither the room's host nor in its listeners.
C11_OneEventPerListener ==
  [][ (lastOp'.op \in Mutations /\ lastOp'.ok) =>
        LET room == rooms'[lastOp'.code] IN
          /\ \A l \in Range(room.listeners) \cap connected :
               CountIn(sent', lastOp'.op, l) = 1
          /\ CountIn(sent', lastOp'.op, lastOp'.sock) = 0
          /\ Reached(sent') \subseteq Range(room.listeners) \cup {room.host} ]_vars

\* C12: a room:join (with a callback) whose code, once normalised, names no
\* live room answers {ok: false, error: 'Room not found...'}, leaves every
\* room as it was, emits nothing, and leaves the sender's socket.data (the
\* room it is associated with) and its groups unchanged.
C12_JoinNotFound ==
  [][ (lastOp'.op = "join" /\ lastOp'.code # Null /\ lastOp'.code \notin DOMAIN rooms) =>
        /\ reply' = [ok |-> FALSE, kind |-> "notfound"]
        /\ rooms' = rooms
        /\ sent' = <<>>
        /\ data' = data
        /\ joined' = joined ]_vars

\* a listener of a live room asked for another code, which is not live
C12_Witness ==
  /\ lastOp.op = "join"
  /\ reply.kind = "notfound"
  /\ lastOp.code \in Codes \ DOMAIN rooms
  /\ data[lastOp.sock].code \in DOMAIN rooms
  /\ lastOp.sock \in Range(rooms[data[lastOp.sock].code].listeners)

\* C13: no room ever has more than MaxListeners listeners, and a room:join
\* for a room whose listeners are already at the maximum answers
\* {ok: false, error: 'Room is full'}, leaves every room as it was and emits
\* no room:listener_joined / room:count.
C13_Capacity ==
  [][ /\ \A c \in DOMAIN rooms' : Len(rooms'[c].listeners) <= MaxListeners
      /\ (/\ lastOp'.op = "join"
          /\ lastOp'.code \in DOMAIN rooms
          /\ Len(rooms[lastOp'.code].listeners) >= MaxListeners)
         => (/\ reply' = [ok |-> FALSE, kind |-> "full"]
             /\ rooms' = rooms
             /\ sent' = <<>>) ]_vars

\* the names under which the builds announce a new listener to the host
ListenerJoinedEvents == {"room:listener_joined", "listener:joined"}

\* C14: after a successful room:join the joining connection is in the room's
\* listeners; the host (if still connected) has received exactly one
\* listener-joined event, carrying the joiner's id; exactly one room:count was
\* emitted, carrying the new length of listeners and reaching the host and
\* every open connection in listeners, the joiner included; and the reply is
\* {ok: true, name, track, state} with the room's name, track and state.
C14_JoinEffects ==
  (lastOp.op = "join" /\ lastOp.ok) =>
    LET room == rooms[lastOp.code]
        toHost == {i \in DOMAIN sent : sent[i].ev \in ListenerJoinedEvents}
        counts == {i \in DOMAIN sent : sent[i].ev = "room:count"}
    IN /\ lastOp.sock \in Range(room.listeners)
       /\ Cardinality(toHost) = 1
       /\ \A i \in toHost : /\ sent[i].arg.id = lastOp.sock
                            /\ sent[i].to = {room.host} \cap connected
       /\ Cardinality(counts) = 1
       /\ \A i \in counts :
            /\ sent[i].arg.count = Len(room.listeners)
            /\ (Range(room.listeners) \cup {room.host}) \cap connected \subseteq sent[i].to
       /\ reply.ok
       /\ {"name", "track", "state"} \subseteq DOMAIN reply
       /\ reply.name = room.name
       /\ reply.track = room.track
       /\ reply.state = room.state

\* C15: after an accepted audio:pause {position} the room's state is
\* {playing: false, position: the position sent, serverPlayAt: null}.
C15_PauseState ==
  (lastOp.op = "audio:pause" /\ lastOp.ok) =>
    rooms[lastOp.code].state =
      [playing |-> FALSE, position |-> lastOp.arg.position, serverPlayAt |-> Null]

\* the host paused at position 1 a room that has a track and a listener
C15_Witness ==
  /\ lastOp.op = "audio:pause" /\ lastOp.ok
  /\ lastOp.arg.position = 1
  /\ rooms[lastOp.code].track # NoTrack
  /\ rooms[lastOp.code].listeners # <<>>

\* C16: after an accepted audio:play, and after an accepted audio:seek whose
\* payload has playing = true, the room's state has playing = true, the
\* position sent and a non-null serverPlayAt.
C16_PlayHasServerPlayAt ==
  (/\ lastOp.ok
   /\ \/ lastOp.op = "audio:play"
      \/ lastOp.op = "audio:seek" /\ lastOp.arg.playing) =>
    /\ rooms[lastOp.code].state.playing
    /\ rooms[lastOp.code].state.position = lastOp.arg.position
    /\ rooms[lastOp.code].state.serverPlayAt # Null

C18_SeekPaused ==
  (lastOp.op = "audio:seek" /\ lastOp.ok /\ ~lastOp.arg.playing) =>
    rooms[lastOp.code].state =
      [playing |-> FALSE, position |-> lastOp.arg.position, serverPlayAt |-> Null]

\* the host sent audio:seek {position: 1, playing: false, serverPlayAt: 1}
C18_Witness ==
  /\ lastOp.op = "audio:seek" /\ lastOp.ok
  /\ ~lastOp.arg.playing
  /\ lastOp.arg.serverPlayAt = 1
  /\ lastOp.arg.position = 1

\* C19: an ntp:ping {clientTime} emits exactly one event, an ntp:pong to the
\* sender alone, carrying the clientTime sent and the server's clock; and the
\* handler can run for every open connection in every state (within the
\* length of a run), whatever room the connection is in.
C19_PingPong ==
  /\ lastOp.op = "ntp:ping" =>
       sent = << [ev |-> "ntp:pong", to |-> {lastOp.sock},
                  arg |-> [clientTime |-> lastOp.arg.clientTime, serverTime |-> now]] >>
  /\ \A s \in connected : steps < MaxSteps => ENABLED NtpPing(s)

\* a connection that is in no room pinged with clientTime 1 while a room is
\* playing
C19_Witness ==
  /\ lastOp.op = "ntp:ping"
  /\ lastOp.arg.clientTime = 1
  /\ data[lastOp.sock].code = NoCode
  /\ \E c \in DOMAIN rooms : rooms[c].state.playing

\* C20: a live room leaves the registry, or is replaced under its code by a
\* new room, only in the disconnect of its recorded host or in a cleanup run
\* that finds it older than ROOM_TTL.
C20_RemovalOnlyByHostOrSweep ==
  [][ \A c \in DOMAIN rooms :
        (\/ c \notin DOMAIN rooms'
         \/ lastOp'.op = "create" /\ lastOp'.ok /\ lastOp'.code = c)
        => (\/ lastOp'.op = "disconnect" /\ lastOp'.sock = rooms[c].host
            \/ lastOp'.op = "sweep" /\ Expired(rooms[c], now)) ]_vars

\* C21: when a room leaves the registry (disconnect of its host, cleanup),
\* no open connection that was in its listeners stays associated with its
\* code: neither socket.data.code nor the socket.io group of the code keeps
\* it, so that a later room under the same code would not reach it.
C21_ListenersEvicted ==
  [][ \A c \in DOMAIN rooms \ DOMAIN rooms' :
        \A l \in Range(rooms[c].listeners) \cap connected' :
          /\ c \notin joined'[l]
          /\ data'[l].code # c ]_vars

\* C22: a track:set / audio:play / audio:pause / audio:seek from a connection
\* that is not the recorded host of the room its socket.data names emits no
\* event to anybody and answers nothing.
C22_SilentRejection ==
  (/\ lastOp.op \in Mutations
   /\ ~Hosts(data[lastOp.sock].code, lastOp.sock)) =>
    /\ sent = <<>>
    /\ reply = NoReply

\* a listener sent audio:play to a room whose host and a second listener are
\* connected
C22_Witness ==
  /\ lastOp.op = "audio:play"
  /\ ~lastOp.ok
  /\ lastOp.code \in DOMAIN rooms
  /\ rooms[lastOp.code].host \in connected \ {lastOp.sock}
  /\ lastOp.sock \in Range(rooms[lastOp.code].listeners)
  /\ Len(rooms[lastOp.code].listeners) = 2
  /\ sent = <<>>

\* C23: a room:create records the sender as the room's host, and from then
\* until the room leaves the registry (or a later room:create registers a
\* new room under its code) no step changes the recorded host.
C23_NoHostSuccession ==
  [][ /\ (lastOp'.op = "create" /\ lastOp'.ok) =>
           rooms'[lastOp'.code].host = lastOp'.sock
      /\ \A c \in DOMAIN rooms \cap DOMAIN rooms' :
           ~(lastOp'.op = "create" /\ lastOp'.ok /\ lastOp'.code = c) =>
             rooms'[c].host = rooms[c].host ]_vars

\* the host of a room with a connected listener disconnected: the room is
\* gone, the listener was told, and nobody took the room over
C23_Witness ==
  /\ lastOp.op = "disconnect" /\ lastOp.ok
  /\ lastOp.code \notin DOMAIN rooms
  /\ \E i \in DOMAIN sent : sent[i].ev = "room:host_left" /\ sent[i].to # {}

\* no track, and the state literal of room:create
Fresh(room) ==
  /\ room.track = NoTrack
  /\ room.state = [playing |-> FALSE, position |-> 0, serverPlayAt |-> Null]

C25_ListenersIsASet ==
  \A c \in DOMAIN rooms :
    Cardinality(Range(rooms[c].listeners)) = Len(rooms[c].listeners)

\* C26: an ntp:ping or a keepalive changes no room, no socket.data and no
\* group, and emits to nobody but the sender; a keepalive emits exactly one
\* keepalive-ack, to the sender.
C26_PingKeepaliveStateless ==
  [][ lastOp'.op \in {"ntp:ping", "keepalive"} =>
        /\ rooms' = rooms
        /\ data' = data
        /\ joined' = joined
        /\ connected' = connected
        /\ Reached(sent') \subseteq {lastOp'.sock}
        /\ lastOp'.op = "keepalive" =>
             /\ Len(sent') = 1
             /\ sent'[1].ev = "keepalive-ack"
             /\ sent'[1].to = {lastOp'.sock} ]_vars

\* a listener of a live room whose host is connected sent a keepalive
C26_Witness ==
  /\ lastOp.op = "keepalive"
  /\ lastOp.code \in DOMAIN rooms
  /\ lastOp.sock \in Range(rooms[lastOp.code].listeners)
  /\ rooms[lastOp.code].host \in connected \ {lastOp.sock}
  /\ sent # <<>>

\* C27: a room:create never makes more than 1 + MaxTries calls of makeCode()
\* (1 + 100 in the source), whatever codes are live.
C27_CreateBounded ==
  lastOp.op \in {"create", "create:loop"} => lastOp.arg.tries <= 1 + MaxTries

\* C28: with each handler run to completion, a listener is given the play
\* whichever of the host's audio:play and its own room:join is handled first.
\* Play first: the reply of the join carries {playing: true, position,
\* serverPlayAt} as the play sent them. Join first: the play delivers exactly
\* one audio:play event, carrying the position and serverPlayAt sent, to
\* every open connection in listeners (other than the host that sent it).
C28_JoinPlayOrder ==
  /\ (lastOp.op = "join" /\ lastOp.ok /\ played[lastOp.code].on) =>
       /\ reply.state.playing
       /\ reply.state.position = played[lastOp.code].position
       /\ reply.state.serverPlayAt = played[lastOp.code].serverPlayAt
  /\ (lastOp.op = "audio:play" /\ lastOp.ok) =>
       \A l \in (Range(rooms[lastOp.code].listeners) \cap connected) \ {lastOp.sock} :
         /\ CountIn(sent, "audio:play", l) = 1
         /\ \A i \in DOMAIN sent :
              l \in sent[i].to =>
                sent[i].arg = [position |-> lastOp.arg.position,
                               serverPlayAt |-> lastOp.arg.serverPlayAt]

\* the host sent audio:play {position: 1, serverPlayAt: 1} to a room that two
\* other connections had joined, and both received it
C28_Witness ==
  /\ lastOp.op = "audio:play" /\ lastOp.ok
  /\ lastOp.arg.position = 1
  /\ lastOp.arg.serverPlayAt = 1
  /\ Cardinality(Range(rooms[lastOp.code].listeners) \ {lastOp.sock}) = 2
  /\ \A l \in Range(rooms[lastOp.code].listeners) : CountIn(sent, "audio:play", l) = 1

\* C29: a disconnect removes a room only if the disconnecting socket is its
\* recorded host, and emits room:listener_left / room:count only for a room
\* that has the socket in its listeners.
C29_DisconnectOwnRoomOnly ==
  [][ lastOp'.op = "disconnect" =>
        /\ \A c \in DOMAIN rooms \ DOMAIN rooms' : rooms[c].host = lastOp'.sock
        /\ (\E i \in DOMAIN sent' : sent'[i].ev \in {"room:listener_left", "room:count"})
             => lastOp'.sock \in Range(rooms[lastOp'.code].listeners) ]_vars

\* C30: the recorded host of every live room is an open connection whose
\* socket.data is {code: the room's code, isHost: true}.
C30_NoOrphanedRoom ==
  \A c \in DOMAIN rooms :
    /\ rooms[c].host \in connected
    /\ data[rooms[c].host].code = c
    /\ data[rooms[c].host].isHost

\* C31: every socket id in the listeners of a live room is an open connection
\* whose socket.data.code is that room's code (a connection that went on to
\* join or create another room, or that disconnected, is in no other room's
\* listeners).
C31_NoStaleListener ==
  \A c \in DOMAIN rooms :
    \A l \in Range(rooms[c].listeners) :
      /\ l \in connected
      /\ data[l].code = c

\* the playback state a listener reads off a broadcast event: the fields the
\* payload carries, and the fixed ones of the event (a play is playing, a
\* pause and a track:set are not and have no serverPlayAt, a track:set is at 0)
StateOfEvent(ev, arg) ==
  CASE ev = "audio:play"  -> [playing |-> TRUE, position |-> arg.position,
                              serverPlayAt |-> arg.serverPlayAt]
    [] ev = "audio:pause" -> [playing |-> FALSE, position |-> arg.position,
                              serverPlayAt |-> Null]
    [] ev = "audio:seek"  -> [playing |-> arg.playing, position |-> arg.position,
                              serverPlayAt |-> arg.serverPlayAt]
    [] ev = "track:set"   -> [playing |-> FALSE, position |-> 0, serverPlayAt |-> Null]

\* C32: after an accepted track:set / audio:play / audio:pause / audio:seek,
\* the state a listener of the room that received the event reads off it
\* equals the state a room:join handled next would answer with (the room's
\* stored state), also
\* for an audio:seek with playing = false and a serverPlayAt in the payload;
\* and a track:set event carries the track stored.
C32_BroadcastIsSnapshot ==
  (lastOp.op \in Mutations /\ lastOp.ok) =>
    \A i \in DOMAIN sent :
      sent[i].to \cap Range(rooms[lastOp.code].listeners) # {} =>
        /\ StateOfEvent(sent[i].ev, sent[i].arg) = JoinReply(rooms[lastOp.code]).state
        /\ sent[i].ev = "track:set" =>
             sent[i].arg.track = JoinReply(rooms[lastOp.code]).track

\* C33: a live room whose state.playing is true has a track (an audio:play,
\* or an audio:seek with playing = true, on a room whose track was never set
\* does not make it playing).
C33_PlayingHasTrack ==
  \A c \in DOMAIN rooms :
    rooms[c].state.playing => rooms[c].track # NoTrack

\* C34: a room whose recorded host has disconnected does not stay registered
\* for ever: from every state in which socket h is the recorded host of the
\* room under code c and h's disconnect has fired, a state follows in which
\* that room is gone from the registry. This covers a host that sent a second
\* room:create, or a room:join, before it disconnected.
C34_HostGoneRoomGone ==
  \A c \in Codes, h \in Sockets :
    (Hosts(c, h) /\ h \notin connected) ~> ~Hosts(c, h)

\* In part_003 the room of a disconnected host is removed by no step at all:
\* the only `delete rooms[code]` is in the disconnect of a socket whose
\* socket.data names the room with isHost = true. (Holds under Spec003: the
\* run that violates C34_HostGoneRoomGone is not cut short by the bounds.)
OrphanStays003 ==
  [][ \A c \in Codes, h \in Sockets :
        (Hosts(c, h) /\ h \notin connected) => Hosts(c, h)' ]_vars

\* the host and the listeners of a room
Members(room) == {room.host} \cup Range(room.listeners)

\* C35: a cleanup run leaves every room that is not older than ROOM_TTL
\* registered with an unchanged record (host, listeners, track, state), and
\* delivers no event to the host or a listener of such a room.
C35_SweepOnlyExpired ==
  [][ lastOp'.op = "sweep" =>
        \A c \in DOMAIN rooms :
          now - rooms[c].createdAt <= ROOM_TTL =>
            /\ c \in DOMAIN rooms'
            /\ rooms'[c] = rooms[c]
            /\ Members(rooms[c]) \cap Reached(sent') = {} ]_vars

\* C36: when a cleanup run removes a room, every open connection that is in
\* the room (its listeners, and its host if still connected) is delivered
\* room:host_left by that run, once for every removed room it is in.
C36_SweepNotifies ==
  [][ lastOp'.op = "sweep" =>
        LET removed == DOMAIN rooms \ DOMAIN rooms' IN
        \A c \in removed :
          \A m \in Members(rooms[c]) \cap connected :
            CountIn(sent', "room:host_left", m) =
              Cardinality({d \in removed : m \in Members(rooms[d])}) ]_vars

====
